---- MODULE Spec2Model ----
(***************************************************************************)
(* cosmic-screenshot (src/main.rs): one run of main, from argument         *)
(* resolution to process exit, over a small file system.                   *)
(*                                                                         *)
(* A path is the sequence of its components (<<"home", "Pictures">> is     *)
(* /home/Pictures, <<>> is /).  An Option<T> is a set with at most one     *)
(* element.  Every fallible call of the standard library, the portal or    *)
(* the bus takes its outcome from the environment (\E ok \in BOOLEAN).     *)
(***************************************************************************)
EXTENDS Integers, Sequences, FiniteSets, TLC

\* ------------------------------------------------------------- bounds
\* local wall-clock times differ in their second only: 0..MaxSecond
MaxSecond == 1
\* device identifiers a mount point can have: 1..MaxDevice
MaxDevice == 2

\* ---------------------------------------------------------- constants
ExitSuccess == 0
ExitFailure == 1
\* exit status of a process that panicked (expect, panic!)
ExitPanic == 101
ExpireTimeout == 5000
ReplacesId == 0

\* ------------------------------------------------------------ Option
None == {}
Some(v) == {v}
Unwrap(o) == CHOOSE v \in o : TRUE

\* -------------------------------------------------------------- Path
\* Path::parent
Parent(p) == SubSeq(p, 1, Len(p) - 1)
\* Path::join with a single relative component
Join(p, name) == Append(p, name)
\* Path::starts_with: component-wise prefix
StartsWith(p, base) == Len(base) <= Len(p) /\ SubSeq(p, 1, Len(base)) = base

RECURSIVE PathToString(_)
\* Path::to_string_lossy of an absolute path
PathToString(p) ==
    IF Len(p) = 0 THEN "/"
    ELSE IF Len(p) = 1 THEN "/" \o p[1]
    ELSE PathToString(Parent(p)) \o "/" \o p[Len(p)]

\* str::contains
Contains(s, sub) ==
    \E i \in 1..(Len(s) - Len(sub) + 1) : SubSeq(s, i, i + Len(sub) - 1) = sub

\* ------------------------------------------------------ date, filename
Digit(n) == <<"0", "1", "2", "3", "4", "5", "6", "7", "8", "9">>[n + 1]
Pad2(n) == Digit((n \div 10) % 10) \o Digit(n % 10)
Pad4(n) == Pad2(n \div 100) \o Pad2(n % 100)
\* date.format("%Y-%m-%d_%H-%M-%S")
FormatDate(d) ==
    Pad4(d.year) \o "-" \o Pad2(d.month) \o "-" \o Pad2(d.day) \o "_"
        \o Pad2(d.hour) \o "-" \o Pad2(d.minute) \o "-" \o Pad2(d.second)
\* format!("Screenshot_{}.png", ...)
Filename(d) == "Screenshot_" \o FormatDate(d) \o ".png"
\* the values chrono::Local::now() can return during a run
LocalNow ==
    { [year |-> 2026, month |-> 11, day |-> 4, hour |-> 9, minute |-> 5, second |-> s] :
        s \in 0..MaxSecond }

\* ------------------------------------------------------- file system
PicturesPath == <<"home", "Pictures">>
DocumentsPath == <<"home", "Documents">>
ScreenshotsPath == Join(PicturesPath, "Screenshots")
TmpPath == <<"tmp">>
OutPath == <<"out">>
\* mount points: the first component of a path names its file system
Mounts == {"home", "tmp", "out"}
DeviceIds == 1..MaxDevice
\* directories every run starts with, and those it may start with
BaseDirs == {<<>>, <<"home">>, PicturesPath, DocumentsPath, TmpPath}
OptionalDirs == {ScreenshotsPath, OutPath}
\* where the portal may write the screenshot
SourcePaths ==
    {Join(PicturesPath, "shot.png"), Join(DocumentsPath, "shot.png"), Join(TmpPath, "shot.png")}
\* the bytes of the screenshot, and what an interrupted copy leaves behind
Image == "image"
Partial == "partial"

\* the --save-dir values of a run
SaveDirArgs == {None, Some(OutPath), Some(TmpPath)}
Args == [interactive : BOOLEAN, modal : BOOLEAN, notify : BOOLEAN, save_dir : SaveDirArgs]

\* the URIs of a success response
FileUris == { [scheme |-> "file", host |-> "", path |-> p] : p \in SourcePaths }
Uris ==
    FileUris \cup
    { [scheme |-> "file", host |-> "remote", path |-> Join(TmpPath, "shot.png")],
      [scheme |-> "clipboard", host |-> "", path |-> <<>>],
      [scheme |-> "https", host |-> "example.org", path |-> <<"shot.png">>] }
\* Url::to_file_path: Err(()) when the URI names another host
ToFilePath(uri) == IF uri.host \in {"", "localhost"} THEN Some(uri.path) ELSE None

\* the Display strings of the portal's response errors
ErrCancelled == "Portal request didn't succeed: Cancelled"
ErrOther == "Portal request didn't succeed: Other"
NoResponse == [kind |-> "none"]
Responses ==
    { [kind |-> "err", err |-> e] : e \in {ErrCancelled, ErrOther} } \cup
    { [kind |-> "ok", uri |-> u] : u \in Uris }

VARIABLES
    pc,             \* the statement main is at
    args,           \* Args::parse()
    picture_dir,    \* dirs::picture_dir(), an Option
    document_dir,   \* dirs::document_dir(), an Option
    dev,            \* st_dev of each mount point
    dirs,           \* the directories that exist
    files,          \* the regular files that exist, with their content
    save_dir,       \* main's save_dir, an Option
    request,        \* the request sent to the portal, an Option
    response,       \* the portal's response
    response_path,  \* an Option
    filename,       \* an Option
    target_dir,     \* an Option
    target_img_path,\* an Option
    path,           \* main's path (a String), an Option
    stdout,
    stderr,
    exit_code,      \* an Option
    fsops,          \* the file-system mutations made so far, in order
    calls,          \* the calls made so far, in order
    notifications   \* the Notify calls delivered to the bus

vars ==
    <<pc, args, picture_dir, document_dir, dev, dirs, files, save_dir, request, response,
      response_path, filename, target_dir, target_img_path, path, stdout, stderr,
      exit_code, fsops, calls, notifications>>

environment == <<args, picture_dir, document_dir, dev>>
locals == <<save_dir, request, response, response_path, filename, target_dir,
            target_img_path, path>>

\* --------------------------------------------------- std::fs, modelled
\* Path::is_dir
IsDir(p) == p \in dirs
IsFile(p) == p \in DOMAIN files
\* MetadataExt::dev of an existing path
Device(p) == dev[p[1]]
\* fs::metadata: Ok exactly when the path exists and the environment allows it
MetadataOk(p, ok) == ok /\ (IsDir(p) \/ IsFile(p))
Ancestors(p) == { SubSeq(p, 1, k) : k \in 0..Len(p) }
\* fs::create_dir_all: Ok without a change when p is a directory; an error when p
\* or one of its ancestors is a regular file or the environment refuses; else
\* p and its missing ancestors become directories
CreateDirAll(p, ok) ==
    IF IsDir(p) THEN [ok |-> TRUE, dirs |-> dirs, made |-> {}]
    ELSE IF (\E a \in Ancestors(p) : IsFile(a)) \/ ~ok
         THEN [ok |-> FALSE, dirs |-> dirs, made |-> {}]
         ELSE [ok |-> TRUE, dirs |-> dirs \cup Ancestors(p), made |-> Ancestors(p) \ dirs]
MkdirOps(made) ==
    IF made = {} THEN <<>> ELSE <<[op |-> "mkdir", paths |-> made]>>

\* a panic: the message on standard error, exit status 101
Panic(msg) ==
    /\ pc' = "exit"
    /\ stderr' = Append(stderr, msg)
    /\ exit_code' = Some(ExitPanic)

\* ------------------------------------------------------------- Init
Init ==
    /\ pc = "args"
    /\ args \in Args
    /\ picture_dir \in {None, Some(PicturesPath)}
    /\ document_dir \in {None, Some(DocumentsPath)}
    /\ dev \in [Mounts -> DeviceIds]
    /\ \E opt \in SUBSET OptionalDirs : dirs = BaseDirs \cup opt
    /\ files = <<>>
    /\ save_dir = None
    /\ request = None
    /\ response = NoResponse
    /\ response_path = None
    /\ filename = None
    /\ target_dir = None
    /\ target_img_path = None
    /\ path = None
    /\ stdout = <<>>
    /\ stderr = <<>>
    /\ exit_code = None
    /\ fsops = <<>>
    /\ calls = <<>>
    /\ notifications = <<>>

\* ------------------------------------------------------------- main
\* mutant: an invalid --save-dir leaves save_dir empty
SaveDirValue_NoFallback(a, fallback) ==
    IF ~a.interactive /\ a.save_dir # None /\ IsDir(Unwrap(a.save_dir)) THEN a.save_dir ELSE None

\* the value of save_dir, given the directory the fallback resolved to
SaveDirValue(a, fallback) ==
    IF ~a.interactive
    THEN IF a.save_dir # None /\ IsDir(Unwrap(a.save_dir)) THEN a.save_dir ELSE Some(fallback)
    ELSE None
\* whether the closure of unwrap_or_else runs
NeedsFallback(a) ==
    ~a.interactive /\ ~(a.save_dir # None /\ IsDir(Unwrap(a.save_dir)))

\* let save_dir = (!args.interactive).then(...)
ResolveSaveDir ==
    /\ pc = "args"
    /\ \E ok \in BOOLEAN :
        IF ~NeedsFallback(args)
        THEN /\ save_dir' = SaveDirValue(args, <<>>)
             /\ pc' = "request"
             /\ UNCHANGED <<dirs, fsops, stderr, exit_code>>
        ELSE IF picture_dir = None
        THEN /\ Panic("failed to locate picture directory")
             /\ UNCHANGED <<dirs, fsops, save_dir>>
        ELSE LET screenshot_dir == Join(Unwrap(picture_dir), "Screenshots")
                 r == CreateDirAll(screenshot_dir, ok)
             IN  IF r.ok
                 THEN /\ dirs' = r.dirs
                      /\ fsops' = fsops \o MkdirOps(r.made)
                      /\ save_dir' = SaveDirValue(args, screenshot_dir)
                      /\ pc' = "request"
                      /\ UNCHANGED <<stderr, exit_code>>
                 ELSE /\ Panic("Failed to create Screenshots dir.")
                      /\ UNCHANGED <<dirs, fsops, save_dir>>
    /\ UNCHANGED <<environment, files, request, response, response_path, filename,
                   target_dir, target_img_path, path, stdout, calls, notifications>>

\* Screenshot::request().interactive(..).modal(..).send().await.expect(..).response()
SendRequest ==
    /\ pc = "request"
    /\ request' = Some([interactive |-> args.interactive, modal |-> args.modal])
    /\ \E sent \in BOOLEAN, r \in Responses :
        IF ~sent
        THEN /\ Panic("failed to send screenshot request")
             /\ UNCHANGED <<response, files>>
        ELSE /\ response' = r
             \* the portal has written the screenshot where a local file URI says
             /\ files' = IF r.kind = "ok" /\ r.uri \in FileUris
                         THEN (r.uri.path :> Image) @@ files
                         ELSE files
             /\ pc' = "response"
             /\ UNCHANGED <<stderr, exit_code>>
    /\ UNCHANGED <<environment, dirs, save_dir, response_path, filename, target_dir,
                   target_img_path, path, stdout, fsops, calls, notifications>>

\* mutant: the other spelling
IsCancelled_Misspelt(err) == Contains(err, "Canceled")

\* err.to_string().contains("Cancelled")
IsCancelled(err) == Contains(err, "Cancelled")

\* let response = match response { Err(err) => ..., Ok(response) => response }
MatchResponse ==
    /\ pc = "response"
    /\ IF response.kind = "err"
       THEN IF IsCancelled(response.err)
            THEN /\ stdout' = Append(stdout, "Screenshot cancelled by user")
                 /\ exit_code' = Some(ExitSuccess)
                 /\ pc' = "exit"
                 /\ UNCHANGED stderr
            ELSE /\ stderr' = Append(stderr, "Error taking screenshot: " \o response.err)
                 /\ exit_code' = Some(ExitFailure)
                 /\ pc' = "exit"
                 /\ UNCHANGED stdout
       ELSE /\ pc' = "uri"
            /\ UNCHANGED <<stdout, stderr, exit_code>>
    /\ UNCHANGED <<environment, dirs, files, locals, fsops, calls, notifications>>

\* mutant: the well-known directories are tried before save_dir
TargetDir_PrefixFirst(sd, rp, pictures_dir, documents_dir) ==
    IF StartsWith(rp, pictures_dir) THEN Join(pictures_dir, "Screenshots")
    ELSE IF StartsWith(rp, documents_dir) THEN documents_dir
    ELSE IF sd # None THEN Unwrap(sd)
    ELSE rp

\* let target_dir = if let Some(save_dir) = save_dir { .. } else if .. { .. } else { .. }
TargetDir(sd, rp, pictures_dir, documents_dir) ==
    IF sd # None THEN Unwrap(sd)
    ELSE IF StartsWith(rp, pictures_dir) THEN Join(pictures_dir, "Screenshots")
    ELSE IF StartsWith(rp, documents_dir) THEN documents_dir
    ELSE rp

\* the "file" arm of match uri.scheme(), up to the call of move_picture
FileArm(uri, date, ok) ==
    IF ToFilePath(uri) = None
    THEN /\ Panic("unsupported response URI")
         /\ UNCHANGED <<dirs, fsops, response_path, filename, target_dir, target_img_path>>
    ELSE
    /\ response_path' = ToFilePath(uri)
    /\ filename' = Some(Filename(date))
    /\ IF picture_dir = None
       THEN /\ Panic("Failed to locate Pictures directory.")
            /\ UNCHANGED <<dirs, fsops, target_dir, target_img_path>>
       ELSE IF document_dir = None
       THEN /\ Panic("Failed to locate Documents directory.")
            /\ UNCHANGED <<dirs, fsops, target_dir, target_img_path>>
       ELSE LET dir == TargetDir(save_dir, Unwrap(ToFilePath(uri)),
                                 Unwrap(picture_dir), Unwrap(document_dir))
                r == CreateDirAll(dir, ok)
            IN  /\ target_dir' = Some(dir)
                /\ IF r.ok
                   THEN /\ dirs' = r.dirs
                        /\ fsops' = fsops \o MkdirOps(r.made)
                        /\ target_img_path' = Some(Join(dir, Filename(date)))
                        /\ pc' = "move_picture"
                        /\ UNCHANGED <<stderr, exit_code>>
                   ELSE /\ Panic("Failed to create directory")
                        /\ UNCHANGED <<dirs, fsops, target_img_path>>

\* mutant: every scheme but clipboard is taken for a file
SchemeArm_DefaultFile(scheme) == IF scheme = "clipboard" THEN "clipboard" ELSE "file"

\* mutant: the clipboard arm is missing
SchemeArm_NoClipboard(scheme) == IF scheme = "file" THEN "file" ELSE "other"

\* the arm of match uri.scheme() that a scheme selects
SchemeArm(scheme) ==
    IF scheme = "file" THEN "file"
    ELSE IF scheme = "clipboard" THEN "clipboard"
    ELSE "other"

\* let path = match uri.scheme() { "file" => .., "clipboard" => .., scheme => panic!(..) }
MatchScheme ==
    /\ pc = "uri"
    /\ \E date \in LocalNow, ok \in BOOLEAN :
        IF SchemeArm(response.uri.scheme) = "file"
        THEN /\ FileArm(response.uri, date, ok)
             /\ UNCHANGED path
        ELSE IF SchemeArm(response.uri.scheme) = "clipboard"
        THEN /\ path' = Some("")
             /\ pc' = "println"
             /\ UNCHANGED <<dirs, fsops, response_path, filename, target_dir,
                            target_img_path, stderr, exit_code>>
        ELSE /\ Panic("unsupported scheme '" \o response.uri.scheme \o "'")
             /\ UNCHANGED <<dirs, fsops, response_path, filename, target_dir,
                            target_img_path, path>>
    /\ UNCHANGED <<environment, files, save_dir, request, response, stdout, calls,
                   notifications>>

\* ----------------------------------------------------- move_picture
src_file == Unwrap(response_path)
dst_file == Unwrap(target_img_path)

\* whether move_picture takes the fs::rename branch
TakesRename(src_dev, dst_dev) == src_dev # dst_dev

\* the two fs::metadata calls and the comparison of the device identifiers
MovePicture ==
    /\ pc = "move_picture"
    /\ calls' = Append(calls, "move_picture")
    /\ \E src_ok \in BOOLEAN, dst_ok \in BOOLEAN :
        IF ~MetadataOk(src_file, src_ok)
        THEN Panic("Failed to get metadata on filesystem for picture source path.")
        ELSE IF ~MetadataOk(Parent(dst_file), dst_ok)
        THEN Panic("Failed to get metadata on filesystem for picture destination.")
        ELSE /\ pc' = IF TakesRename(Device(src_file), Device(Parent(dst_file)))
                      THEN "rename" ELSE "copy"
             /\ UNCHANGED <<stderr, exit_code>>
    /\ UNCHANGED <<environment, dirs, files, locals, stdout, fsops, notifications>>

\* a function without the file at p
Without(f, p) == [q \in DOMAIN f \ {p} |-> f[q]]

\* rename(2): EXDEV when the two paths are not on one file system; else the
\* file is at dst and no longer at src, in one step
RenameResult(src, dst, ok) ==
    IF Device(src) # Device(Parent(dst)) \/ ~ok
    THEN [ok |-> FALSE, files |-> files]
    ELSE [ok |-> TRUE, files |-> (dst :> files[src]) @@ Without(files, src)]

\* fs::rename(src_file, dst_file).expect(..); return, then the path of the "file" arm
Rename ==
    /\ pc = "rename"
    /\ calls' = Append(calls, "fs::rename")
    /\ \E ok \in BOOLEAN :
        LET r == RenameResult(src_file, dst_file, ok)
        IN  IF r.ok
            THEN /\ files' = r.files
                 /\ fsops' = Append(fsops, [op |-> "rename", paths |-> {src_file, dst_file}])
                 /\ path' = Some(PathToString(dst_file))
                 /\ pc' = "println"
                 /\ UNCHANGED <<stderr, exit_code>>
            ELSE /\ Panic("Failed to move screenshot.")
                 /\ UNCHANGED <<files, fsops, path>>
    /\ UNCHANGED <<environment, dirs, save_dir, request, response, response_path, filename,
                   target_dir, target_img_path, stdout, notifications>>

\* fs::copy: the whole content at dst; or an error before dst is opened; or an
\* error after dst was created and truncated, with part of the content in it
CopyResult(src, dst, outcome) ==
    IF outcome = "ok" THEN [ok |-> TRUE, files |-> (dst :> files[src]) @@ files]
    ELSE IF outcome = "partial" THEN [ok |-> FALSE, files |-> (dst :> Partial) @@ files]
    ELSE [ok |-> FALSE, files |-> files]

\* mutant: the result of fs::copy is dropped
AfterCopy_Unchecked(copied) == "remove"

\* the statement that follows an fs::copy
AfterCopy(copied) == IF copied THEN "remove" ELSE "exit"

\* fs::copy(src_file, dst_file).expect(..)
Copy ==
    /\ pc = "copy"
    /\ calls' = Append(calls, "fs::copy")
    /\ \E outcome \in {"ok", "partial", "error"} :
        LET r == CopyResult(src_file, dst_file, outcome)
        IN  /\ files' = r.files
            /\ fsops' = IF r.files # files
                        THEN Append(fsops, [op |-> "copy", paths |-> {src_file, dst_file}])
                        ELSE fsops
            /\ pc' = AfterCopy(r.ok)
            /\ IF AfterCopy(r.ok) = "exit"
               THEN /\ stderr' = Append(stderr, "Failed to move screenshot.")
                    /\ exit_code' = Some(ExitPanic)
               ELSE UNCHANGED <<stderr, exit_code>>
    /\ UNCHANGED <<environment, dirs, locals, stdout, notifications>>

\* fs::remove_file(src_file).expect(..); then the path of the "file" arm
RemoveFile ==
    /\ pc = "remove"
    /\ calls' = Append(calls, "fs::remove_file")
    /\ \E ok \in BOOLEAN :
        IF ok
        THEN /\ files' = Without(files, src_file)
             /\ fsops' = Append(fsops, [op |-> "delete", paths |-> {src_file}])
             /\ path' = Some(PathToString(dst_file))
             /\ pc' = "println"
             /\ UNCHANGED <<stderr, exit_code>>
        ELSE /\ Panic("Failed to remove temporary screenshot.")
             /\ UNCHANGED <<files, fsops, path>>
    /\ UNCHANGED <<environment, dirs, save_dir, request, response, response_path, filename,
                   target_dir, target_img_path, stdout, notifications>>

\* -------------------------------------------------- output, notification
\* println!("{path}")
Println ==
    /\ pc = "println"
    /\ stdout' = Append(stdout, Unwrap(path))
    /\ pc' = "notify"
    /\ UNCHANGED <<environment, dirs, files, locals, stderr, exit_code, fsops, calls,
                   notifications>>

\* mutant: the notification is sent whatever --notify says
NotifyEnabled_Always(a) == TRUE

\* if args.notify
NotifyEnabled(a) == a.notify

\* main returns without a notification
Return ==
    /\ pc = "notify"
    /\ ~NotifyEnabled(args)
    /\ pc' = "exit"
    /\ exit_code' = Some(ExitSuccess)
    /\ UNCHANGED <<environment, dirs, files, locals, stdout, stderr, fsops, calls,
                   notifications>>

\* Connection::session().await.expect(..)
ConnectSession ==
    /\ pc = "notify"
    /\ NotifyEnabled(args)
    /\ calls' = Append(calls, "Connection::session")
    /\ \E ok \in BOOLEAN :
        IF ok
        THEN /\ pc' = "proxy"
             /\ UNCHANGED <<stderr, exit_code>>
        ELSE Panic("failed to connect to session bus")
    /\ UNCHANGED <<environment, dirs, files, locals, stdout, fsops, notifications>>

\* the message, NotificationsProxy::new and proxy.notify(..); main returns
Notify ==
    /\ pc = "proxy"
    /\ \E proxy_ok \in BOOLEAN, sent \in BOOLEAN :
        LET message == IF Unwrap(path) = "" THEN "screenshot-saved-to-clipboard"
                       ELSE "screenshot-saved-to"
        IN  IF ~proxy_ok
            THEN /\ Panic("failed to create proxy")
                 /\ UNCHANGED <<calls, notifications>>
            ELSE /\ calls' = Append(calls, "notify")
                 /\ IF sent
                    THEN /\ notifications' = Append(notifications,
                                [app_name |-> "cosmic-screenshot",
                                 replaces_id |-> ReplacesId,
                                 app_icon |-> "com.system76.CosmicScreenshot",
                                 summary |-> message,
                                 body |-> Unwrap(path),
                                 actions |-> <<>>,
                                 hints |-> [transient |-> TRUE],
                                 expire_timeout |-> ExpireTimeout])
                         /\ pc' = "exit"
                         /\ exit_code' = Some(ExitSuccess)
                         /\ UNCHANGED stderr
                    ELSE /\ Panic("failed to send notification")
                         /\ UNCHANGED notifications
    /\ UNCHANGED <<environment, dirs, files, locals, stdout, fsops>>

Next ==
    \/ ResolveSaveDir
    \/ SendRequest
    \/ MatchResponse
    \/ MatchScheme
    \/ MovePicture
    \/ Rename
    \/ Copy
    \/ RemoveFile
    \/ Println
    \/ Return
    \/ ConnectSession
    \/ Notify

Spec == Init /\ [][Next]_vars

\* ------------------------------------------------------------ claims
Range(seq) == { seq[i] : i \in DOMAIN seq }
Called(f) == f \in Range(calls)
OpsDone == { fsops[i].op : i \in DOMAIN fsops }
HoldsImage(p) == IsFile(p) /\ files[p] = Image

\* move_picture has been called with its two arguments
InMovePicture == Called("move_picture") /\ response_path # None /\ target_img_path # None
\* the source file and the destination's parent directory are on one device
SameDevice == Device(src_file) = Device(Parent(dst_file))
\* move_picture has returned
Moved == path # None /\ target_img_path # None

\* C1: when the source file and the destination's parent directory are on the
\* same device, move_picture moves the file by one atomic rename: fs::copy is
\* never called, the content is never at both paths, and after the call the
\* source does not exist and the destination holds the image.
C1_SameDeviceAtomicRename ==
    (InMovePicture /\ SameDevice) =>
        /\ ~Called("fs::copy")
        /\ ~(HoldsImage(src_file) /\ HoldsImage(dst_file))
        /\ Moved => (~IsFile(src_file) /\ HoldsImage(dst_file))

\* C2: when the source file and the destination's parent directory are on
\* different devices, move_picture copies and then deletes the source: it never
\* calls fs::rename, and after the call the destination holds the image and the
\* source does not exist.
C2_CrossDeviceCopyDelete ==
    (InMovePicture /\ ~SameDevice) =>
        /\ pc # "rename"
        /\ ~Called("fs::rename")
        /\ Moved => (~IsFile(src_file) /\ HoldsImage(dst_file))

\* no save directory is in effect and the source path lies under neither the
\* pictures nor the documents directory
FallbackCase ==
    /\ response_path # None
    /\ save_dir = None
    /\ ~StartsWith(src_file, PicturesPath)
    /\ ~StartsWith(src_file, DocumentsPath)

\* C3: in the fallback case the destination directory is the parent directory
\* of the source file, and a run that ends normally leaves the image at
\* <parent of source>/Screenshot_<timestamp>.png.
C3_FallbackIsSourceParent ==
    FallbackCase =>
        /\ target_dir # None => target_dir = Some(Parent(src_file))
        /\ (pc = "exit" /\ exit_code = Some(ExitSuccess)) =>
              HoldsImage(Join(Parent(src_file), Unwrap(filename)))

\* --save-dir is absent or does not name an existing directory
NoValidSaveDir == args.save_dir = None \/ ~IsDir(Unwrap(args.save_dir))
\* the "file" arm has resolved the destination and created its directory
Resolved == response_path # None /\ target_dir # None /\ target_img_path # None

\* C4 as stated: with interactive=false and no valid save_dir the resolved
\* destination directory exists and follows the prefix of the source path:
\* <pictures>/Screenshots under the pictures directory, <documents> under the
\* documents directory.
C4_ByPrefix ==
    (~args.interactive /\ NoValidSaveDir /\ Resolved) =>
        /\ IsDir(Unwrap(target_dir))
        /\ StartsWith(src_file, PicturesPath) => target_dir = Some(ScreenshotsPath)
        /\ StartsWith(src_file, DocumentsPath) => target_dir = Some(DocumentsPath)

\* C4 amended: with interactive=false and no valid save_dir the resolved
\* destination directory exists and is <pictures>/Screenshots whatever the
\* prefix of the source path, and that is the save_dir of main.
C4_AlwaysScreenshots ==
    (~args.interactive /\ NoValidSaveDir /\ Resolved) =>
        /\ IsDir(Unwrap(target_dir))
        /\ target_dir = Some(ScreenshotsPath)
        /\ save_dir = Some(ScreenshotsPath)

C4_Witness ==
    /\ ~args.interactive /\ NoValidSaveDir /\ Resolved
    /\ StartsWith(src_file, DocumentsPath)
    /\ target_dir = Some(ScreenshotsPath)
    /\ [op |-> "mkdir", paths |-> {ScreenshotsPath}] \in Range(fsops)

\* C5: with interactive=false and a save_dir that names an existing directory,
\* the destination of every file response is <save_dir>/Screenshot_<timestamp>.png
\* and that is the path printed; with interactive=true main's save_dir is None
\* and the destination directory comes from the source path alone.
C5_SaveDirVerbatim ==
    /\ (~args.interactive /\ ~NoValidSaveDir /\ target_dir # None) =>
          /\ target_dir = args.save_dir
          /\ target_img_path # None =>
                /\ Unwrap(filename) \in { Filename(d) : d \in LocalNow }
                /\ dst_file = Join(Unwrap(args.save_dir), Unwrap(filename))
                /\ path # None => path = Some(PathToString(Unwrap(args.save_dir)) \o "/"
                                                 \o Unwrap(filename))
    /\ args.interactive =>
          /\ save_dir = None
          /\ target_dir # None =>
                Unwrap(target_dir) \in {ScreenshotsPath, DocumentsPath, src_file}

C5_Witness ==
    /\ ~args.interactive /\ args.save_dir = Some(OutPath) /\ Resolved
    /\ StartsWith(src_file, PicturesPath)
    /\ path = Some("/out/Screenshot_2026-11-04_09-05-01.png")
    /\ HoldsImage(<<"out", "Screenshot_2026-11-04_09-05-01.png">>)

\* the portal reported that the user cancelled
Cancelled == response.kind = "err" /\ response.err = ErrCancelled
\* the only directory creation is that of <pictures>/Screenshots
OnlyScreenshotsMade ==
    \A i \in DOMAIN fsops : fsops[i] = [op |-> "mkdir", paths |-> {ScreenshotsPath}]

\* C6 as stated: a run in which the portal reports cancellation prints the
\* cancellation notice, exits with status 0 and performs no file operation.
C6_NoFileOperation ==
    Cancelled =>
        /\ fsops = <<>>
        /\ pc = "exit" =>
              /\ stdout = <<"Screenshot cancelled by user">>
              /\ exit_code = Some(ExitSuccess)

\* C6 amended: a run in which the portal reports cancellation prints the
\* cancellation notice, exits with status 0 and performs no rename, copy or
\* delete; the only directory it can have created is <pictures>/Screenshots,
\* before the request, when interactive=false and there is no valid save_dir.
C6_CancelledNoMove ==
    Cancelled =>
        /\ pc \in {"response", "exit"}
        /\ calls = <<>>
        /\ OnlyScreenshotsMade
        /\ Len(fsops) <= 1
        /\ fsops # <<>> => (~args.interactive /\ NoValidSaveDir)
        /\ DOMAIN files = {}
        /\ pc = "exit" =>
              /\ stdout = <<"Screenshot cancelled by user">>
              /\ stderr = <<>>
              /\ exit_code = Some(ExitSuccess)

C6_Witness ==
    /\ Cancelled /\ pc = "exit" /\ exit_code = Some(ExitSuccess)
    /\ fsops = <<[op |-> "mkdir", paths |-> {ScreenshotsPath}]>>

\* the success response carries a URI whose scheme is neither file nor clipboard
UnknownScheme == response.kind = "ok" /\ response.uri.scheme \notin {"file", "clipboard"}

\* C7 as stated: a run whose response has an unrecognized scheme aborts, and
\* no file-system mutation has happened before the abort.
C7_NoMutation ==
    UnknownScheme =>
        /\ fsops = <<>>
        /\ pc \in {"response", "uri", "exit"}
        /\ pc = "exit" => exit_code = Some(ExitPanic)

\* C7 amended: a run whose response has an unrecognized scheme aborts with no
\* rename, copy or delete and without calling move_picture; the only directory
\* it can have created is <pictures>/Screenshots, before the request, when
\* interactive=false and there is no valid save_dir.
C7_UnknownSchemeAborts ==
    UnknownScheme =>
        /\ pc \in {"response", "uri", "exit"}
        /\ calls = <<>>
        /\ OnlyScreenshotsMade
        /\ Len(fsops) <= 1
        /\ fsops # <<>> => (~args.interactive /\ NoValidSaveDir)
        /\ DOMAIN files = {}
        /\ pc = "exit" =>
              /\ exit_code = Some(ExitPanic)
              /\ stderr = <<"unsupported scheme 'https'">>
              /\ stdout = <<>>

C7_Witness ==
    /\ UnknownScheme /\ pc = "exit" /\ exit_code = Some(ExitPanic)
    /\ fsops = <<[op |-> "mkdir", paths |-> {ScreenshotsPath}]>>

ClipboardResponse == response.kind = "ok" /\ response.uri.scheme = "clipboard"

\* C8: for a clipboard response the path is the empty string, one empty line
\* is printed, move_picture is never called and no file is renamed, copied or
\* deleted.
C8_ClipboardNoRelocation ==
    ClipboardResponse =>
        /\ ~Called("move_picture") /\ ~Called("fs::rename")
        /\ ~Called("fs::copy") /\ ~Called("fs::remove_file")
        /\ OpsDone \subseteq {"mkdir"}
        /\ response_path = None /\ target_dir = None /\ target_img_path = None
        /\ path # None => path = Some("")
        /\ pc \in {"notify", "proxy", "exit"} => stdout = <<"">>

C8_Witness ==
    /\ ClipboardResponse /\ pc = "exit" /\ exit_code = Some(ExitSuccess)
    /\ stdout = <<"">>
    /\ Len(notifications) = 1 /\ notifications[1].summary = "screenshot-saved-to-clipboard"

\* the file arm has moved the screenshot
FileSaved == response.kind = "ok" /\ response.uri.scheme = "file" /\ Moved

\* C9: with notify=false no session-bus connection is attempted and no
\* notification call is made, and a run whose file save succeeded prints the
\* saved path and exits with status 0; a connection is attempted only with
\* notify=true and only after the path line is printed.
C9_NotifyGatesBus ==
    /\ ~args.notify =>
          /\ ~Called("Connection::session") /\ ~Called("notify")
          /\ notifications = <<>>
          /\ pc # "proxy"
          /\ (FileSaved /\ pc = "exit") =>
                /\ stdout = <<PathToString(dst_file)>>
                /\ exit_code = Some(ExitSuccess)
    /\ Called("Connection::session") =>
          /\ args.notify
          /\ path # None /\ stdout = <<Unwrap(path)>>

C9_Witness ==
    /\ ~args.notify /\ FileSaved /\ pc = "exit"
    /\ stdout = <<"/home/Pictures/Screenshots/Screenshot_2026-11-04_09-05-00.png">>

C9_WitnessConnect ==
    /\ args.notify /\ FileSaved /\ Called("Connection::session")

\* the copy step of move_picture failed
CopyFailed ==
    /\ Called("fs::copy") /\ pc = "exit"
    /\ stderr = <<"Failed to move screenshot.">>

\* the portal has written the screenshot to a local path
Captured == response.kind = "ok" /\ response.uri \in FileUris
ImageSomewhere ==
    \/ HoldsImage(response.uri.path)
    \/ target_img_path # None /\ HoldsImage(dst_file)

\* C10 as stated: the source is deleted only after the copy succeeded; when
\* the copy fails the run aborts with the source unchanged and the destination
\* not existing; the image is always at the source or at the destination.
C10_CopyFailureLeavesNoDestination ==
    /\ Captured => ImageSomewhere
    /\ Called("fs::remove_file") => HoldsImage(dst_file)
    /\ CopyFailed => (HoldsImage(src_file) /\ ~IsFile(dst_file))

\* C10 amended: the source is deleted only after the copy succeeded; when the
\* copy fails the run aborts with the source unchanged, and the destination
\* either does not exist or holds what fs::copy wrote before it failed; the
\* image is always at the source or at the destination.
C10_SourceKeptUntilCopied ==
    /\ Captured => ImageSomewhere
    /\ Called("fs::remove_file") => HoldsImage(dst_file)
    /\ CopyFailed =>
          /\ HoldsImage(src_file)
          /\ ~Called("fs::remove_file")
          /\ exit_code = Some(ExitPanic)
          /\ IsFile(dst_file) => files[dst_file] = Partial

C10_Witness ==
    /\ CopyFailed /\ HoldsImage(src_file)
    /\ IsFile(dst_file) /\ files[dst_file] = Partial
====
